---- MODULE Spec2Model ----
(***************************************************************************)
(* Ingestion orchestration core of unit3-capstone-new:                     *)
(*   - the chunker and the Textract poll loop of lambda_pdf_function.py,   *)
(*   - the unstructured (PDF) handler with its persistence,                *)
(*   - the structured (CSV/JSON) handler of lambda_structured_function.py. *)
(* Strings of the program are sequences of one-character strings.          *)
(***************************************************************************)
EXTENDS Integers, Sequences, FiniteSets, TLC

VARIABLES
    \* ---- _chunk_text (lambda_pdf_function.py) ----
    text,            \* the input text
    target_chars,    \* target size
    max_chars,       \* max size
    overlap_chars,   \* overlap size
    chunks,          \* the returned list of chunks
    cpc,             \* "start" | "done"
    \* ---- _textract_text (lambda_pdf_function.py) ----
    max_wait,        \* TEXTRACT_MAX_POLL_SECONDS
    waited,          \* seconds slept so far
    statuses,        \* the JobStatus of every status poll so far, in order
    polls,           \* number of status polls (calls without NextToken)
    pages,           \* the result pages served so far, in order
    fetches,         \* number of page fetches (calls with NextToken)
    blocks,          \* the blocks collected so far
    next_token,      \* whether the last response carried a NextToken
    ttext,           \* the returned text
    tpc,             \* position in _textract_text
    \* ---- lambda_handler (lambda_structured_function.py) ----
    event,           \* event["Records"]
    enable_crawler,  \* ENABLE_CRAWLER
    rec_i,           \* index of the record the loop is at
    src_key,         \* the local src_key; <<>> while unassigned (or empty)
    e,               \* the exception caught at line 124
    move_err,        \* the exception caught at line 129
    store,           \* the objects of BUCKET: key -> object
    calls,           \* the S3 and Glue calls made so far, with outcomes
    log,             \* what the handler printed (tags)
    crawls,          \* the crawlers started
    jobs,            \* the job runs started
    result,          \* how the handler ended: its status and the exception raised
    rpc,             \* position in lambda_handler
    \* ---- lambda_handler (lambda_pdf_function.py) ----
    pdf_event,       \* event["Records"]
    os_endpoint,     \* whether OS_ENDPOINT is set
    index_exists,    \* whether the search index exists
    pdf_key,         \* the local key
    pdf_text,        \* the local text
    pdf_chunks,      \* the local chunks
    vectors,         \* the local vectors
    documents,       \* the rows of table documents
    doc_chunks,      \* the rows of table doc_chunks
    doc_id,          \* the id of the document row inserted by this run
    offset,          \* the local offset of store_document_and_chunks
    index_docs,      \* the entries of the search index
    pdf_result,      \* how the handler ended
    hpc,             \* position in lambda_handler
    \* ---- _dataset_from_key (lambda_structured_function.py) ----
    ds_key,          \* the argument key
    ds_value,        \* the value returned
    dpc,             \* position: "start", "done"
    \* ---- concurrent invocations of lambda_handler for one key ----
    inv_pc,          \* position of every invocation in lambda_handler
    inv_e,           \* the exception every invocation caught (line 124)
    inv_store        \* the bucket the invocations share: key -> object

chunkVars == <<text, target_chars, max_chars, overlap_chars, chunks, cpc>>
textractVars == <<max_wait, waited, statuses, polls, pages, fetches, blocks,
                  next_token, ttext, tpc>>

routerVars == <<event, enable_crawler, rec_i, src_key, e, move_err, store,
                calls, log, crawls, jobs, result, rpc>>

pdfVars == <<pdf_event, os_endpoint, index_exists, pdf_key, pdf_text,
             pdf_chunks, vectors, documents, doc_chunks, doc_id, offset,
             index_docs, pdf_result, hpc>>

datasetVars == <<ds_key, ds_value, dpc>>

invVars == <<inv_pc, inv_e, inv_store>>

vars == <<chunkVars, textractVars, routerVars, pdfVars, datasetVars, invVars>>

\* ------------------------------------------------------------------------
\* Bounds of the model
\* ------------------------------------------------------------------------
MaxTextLen == 8      \* longest input text of the chunker
MaxTarget == 3       \* largest target size tried
MaxSlack == 1        \* max size ranges over target .. target + MaxSlack
MaxWait == 5         \* largest TEXTRACT_MAX_POLL_SECONDS tried
MaxPages == 2        \* most result pages of one extraction job
MaxBlocks == 3       \* most blocks of one extraction job, over all its pages
MaxRecords == 2      \* most records of one event

\* ------------------------------------------------------------------------
\* Characters and string helpers
\* ------------------------------------------------------------------------
NL == "\n"
Chars == {"a", " ", NL}

IsSpace(c) == c \in {" ", NL}

Min(a, b) == IF a < b THEN a ELSE b
Max(a, b) == IF a > b THEN a ELSE b

\* s[i:] of Python, i counted from 0
DropFirst(s, i) == SubSeq(s, i + 1, Len(s))
\* s[:n] of Python
TakeFirst(s, n) == SubSeq(s, 1, Min(n, Len(s)))

RECURSIVE LStrip(_)
LStrip(s) ==
    IF s = <<>> THEN s
    ELSE IF IsSpace(Head(s)) THEN LStrip(Tail(s)) ELSE s

RECURSIVE RStrip(_)
RStrip(s) ==
    IF s = <<>> THEN s
    ELSE IF IsSpace(s[Len(s)]) THEN RStrip(SubSeq(s, 1, Len(s) - 1)) ELSE s

\* str.strip()
Strip(s) == LStrip(RStrip(s))

\* number of leading newlines of s
RECURSIVE NewlineRun(_)
NewlineRun(s) ==
    IF s = <<>> \/ Head(s) # NL THEN 0 ELSE 1 + NewlineRun(Tail(s))

\* index of the first newline of s that another newline follows, 0 when
\* there is none
FirstBlank(s) ==
    LET I == {i \in 1..(Len(s) - 1) : s[i] = NL /\ s[i + 1] = NL} IN
    IF I = {} THEN 0 ELSE CHOOSE i \in I : \A j \in I : i <= j

\* re.split(r"\n{2,}", s): cut at every maximal run of two or more newlines
RECURSIVE ReSplitBlank(_)
ReSplitBlank(s) ==
    LET i == FirstBlank(s) IN
    IF i = 0 THEN <<s>>
    ELSE LET rest == DropFirst(s, i - 1) IN
         <<SubSeq(s, 1, i - 1)>>
         \o ReSplitBlank(DropFirst(rest, NewlineRun(rest)))

RECURSIVE StripAll(_)
StripAll(parts) ==
    IF parts = <<>> THEN <<>>
    ELSE <<Strip(Head(parts))>> \o StripAll(Tail(parts))

\* _split_paragraphs
_split_paragraphs(t) ==
    LET parts == ReSplitBlank(Strip(t)) IN
    SelectSeq(StripAll(parts), LAMBDA p : p # <<>>)

\* ------------------------------------------------------------------------
\* _chunk_text
\* ------------------------------------------------------------------------
\* A chunk as the loop emits it: its text, the statement that appended it
\* ("closed": line 191, "flushed": line 185, "piece": line 187,
\* "final": line 195) and the number of overlap characters its buffer was
\* seeded with.
ChunkRec(t, kind, seed) == [text |-> t, kind |-> kind, seed |-> seed]

\* a long paragraph emitted whole instead of in slices
Pieces_Unsplit(p, target) == <<ChunkRec(p, "piece", 0)>>

\* the slices p[i:i+target] for i in range(0, len(p), target)
RECURSIVE Pieces(_, _)
Pieces(p, target) ==
    IF p = <<>> THEN <<>>
    ELSE <<ChunkRec(TakeFirst(p, target), "piece", 0)>>
         \o Pieces(DropFirst(p, Min(target, Len(p))), target)

\* a new buffer started without the tail of the closed chunk
OverlapSeed_None(cur, overlap) == <<>>

\* cur[max(0, len(cur) - overlap):]
OverlapSeed(cur, overlap) == DropFirst(cur, Max(0, Len(cur) - overlap))

\* the close of the current chunk (lines 190-193)
CloseChunk(st, p, overlap) ==
    IF st.cur # <<>>
    THEN LET ov == OverlapSeed(st.cur, overlap) IN
         [out |-> Append(st.out, ChunkRec(st.cur, "closed", st.seed)),
          cur |-> ov \o p, seed |-> Len(ov)]
    ELSE [st EXCEPT !.cur = p]

\* a hard split that slices the buffer together with the paragraph
HardSplit_MergesBuffer(st, p, target) ==
    [out |-> st.out \o Pieces(st.cur \o p, target), cur |-> <<>>, seed |-> 0]

\* the hard split of a long paragraph (lines 182-187)
HardSplit(st, p, target) ==
    [out |-> st.out
             \o (IF st.cur # <<>>
                 THEN <<ChunkRec(st.cur, "flushed", st.seed)>> ELSE <<>>)
             \o Pieces(p, target),
     cur |-> <<>>, seed |-> 0]

\* one iteration of the loop over the paragraphs (lines 177-193)
ParaStep(st, para, target, max, overlap) ==
    LET p == Append(para, NL) IN
    IF Len(st.cur) + Len(p) <= target THEN [st EXCEPT !.cur = st.cur \o p]
    ELSE IF Len(p) > max THEN HardSplit(st, p, target)
    ELSE CloseChunk(st, p, overlap)

RECURSIVE ParaLoop(_, _, _, _, _)
ParaLoop(st, paras, target, max, overlap) ==
    IF paras = <<>> THEN st
    ELSE ParaLoop(ParaStep(st, Head(paras), target, max, overlap),
                  Tail(paras), target, max, overlap)

\* the final flush (lines 194-195)
FinalFlush(st, max) ==
    IF st.cur # <<>>
    THEN Append(st.out, ChunkRec(TakeFirst(st.cur, max), "final", st.seed))
    ELSE st.out

\* the chunks of a text with the statement that emitted each
ChunkTrace(t, target, max, overlap) ==
    FinalFlush(ParaLoop([out |-> <<>>, cur |-> <<>>, seed |-> 0],
                        _split_paragraphs(t), target, max, overlap), max)

_chunk_text(t, target, max, overlap) ==
    LET tr == ChunkTrace(t, target, max, overlap) IN
    [i \in 1..Len(tr) |-> tr[i].text]

\* ------------------------------------------------------------------------
\* Structured router (lambda_structured_function.py): keys and names
\* ------------------------------------------------------------------------
BUCKET == "data-bucket"

STAGING_ROOT ==
    <<"s","t","a","g","i","n","g","/","s","t","r","u","c","t","u","r","e","d">>
OUTPUT_ROOT ==
    <<"p","r","o","c","e","s","s","e","d","/",
      "s","t","r","u","c","t","u","r","e","d">>
ERROR_ROOT ==
    <<"e","r","r","o","r","s","/","s","t","r","u","c","t","u","r","e","d">>

\* _today_yyyy_mm_dd(): the ISO date of the run
_today_yyyy_mm_dd == <<"2","0","2","6","-","0","1","-","0","5">>

\* _VALID_EXT
_VALID_EXT == { <<".","c","s","v">>, <<".","j","s","o","n">> }

\* str.lower() on the ASCII letters
LowerChar(c) ==
    LET upper == <<"A","B","C","D","E","F","G","H","I","J","K","L","M","N",
                   "O","P","Q","R","S","T","U","V","W","X","Y","Z">>
        lower == <<"a","b","c","d","e","f","g","h","i","j","k","l","m","n",
                   "o","p","q","r","s","t","u","v","w","x","y","z">>
        I == {i \in 1..26 : upper[i] = c}
    IN  IF I = {} THEN c ELSE lower[CHOOSE i \in I : TRUE]

Lower(s) == [i \in 1..Len(s) |-> LowerChar(s[i])]

\* urllib.parse.unquote on the escapes the modelled keys use
IsEscape(a, b) == <<a, b>> \in { <<"5","F">>, <<"2","D">> }
EscapeChar(a, b) == IF <<a, b>> = <<"5","F">> THEN "_" ELSE "-"

RECURSIVE Unquote(_)
Unquote(s) ==
    IF s = <<>> THEN <<>>
    ELSE IF Head(s) = "%" /\ Len(s) >= 3 /\ IsEscape(s[2], s[3])
         THEN <<EscapeChar(s[2], s[3])>> \o Unquote(DropFirst(s, 3))
         ELSE <<Head(s)>> \o Unquote(Tail(s))

\* str.rfind as a 1-based index, 0 when absent
RFind(s, c) ==
    LET I == {i \in 1..Len(s) : s[i] = c} IN
    IF I = {} THEN 0 ELSE CHOOSE i \in I : \A j \in I : j <= i

\* os.path.basename
Basename(key) == DropFirst(key, RFind(key, "/"))

\* os.path.splitext: <<root, ext>>; the leading dots of the file name start
\* no extension
SplitExt(p) ==
    LET sep == RFind(p, "/")
        dot == RFind(p, ".")
    IN  IF dot > sep /\ \E i \in (sep + 1)..(dot - 1) : p[i] # "."
        THEN <<SubSeq(p, 1, dot - 1), SubSeq(p, dot, Len(p))>>
        ELSE <<p, <<>>>>

\* re.split(r"[_\-.]", base, maxsplit=1)[0]
RECURSIVE FirstSegment(_)
FirstSegment(s) ==
    IF s = <<>> \/ Head(s) \in {"_", "-", "."} THEN <<>>
    ELSE <<Head(s)>> \o FirstSegment(Tail(s))

DatasetChars ==
    {"a","b","c","d","e","f","g","h","i","j","k","l","m","n","o","p","q","r",
     "s","t","u","v","w","x","y","z","0","1","2","3","4","5","6","7","8","9",
     "_"}

\* the name left as it is
SubInvalid_Keep(s, inRun) == s

\* re.sub(r"[^a-z0-9_]+", "_", ds)
RECURSIVE SubInvalid(_, _)
SubInvalid(s, inRun) ==
    IF s = <<>> THEN <<>>
    ELSE IF Head(s) \in DatasetChars
         THEN <<Head(s)>> \o SubInvalid(Tail(s), FALSE)
         ELSE (IF inRun THEN <<>> ELSE <<"_">>) \o SubInvalid(Tail(s), TRUE)

\* _dataset_from_key
_dataset_from_key(key) ==
    LET base == Basename(key)
        m0 == FirstSegment(base)
        ds == Lower(Strip(IF m0 # <<>> THEN m0 ELSE SplitExt(base)[1]))
        sub == SubInvalid(ds, FALSE)
    IN  IF sub # <<>> THEN sub ELSE <<"d","a","t","a","s","e","t">>

\* f"{STAGING_ROOT}/{dataset}/ingest_date={ingest_date}/{basename}" (line 103)
StagingKey(key) ==
    STAGING_ROOT \o <<"/">> \o _dataset_from_key(key)
    \o <<"/","i","n","g","e","s","t","_","d","a","t","e","=">>
    \o _today_yyyy_mm_dd \o <<"/">> \o Basename(key)

\* f"{ERROR_ROOT}/{_today_yyyy_mm_dd()}/{base}" (line 48)
ErrorKey(key) ==
    ERROR_ROOT \o <<"/">> \o _today_yyyy_mm_dd \o <<"/">> \o Basename(key)

\* f"{STAGING_ROOT}/{dataset}/" and f"{OUTPUT_ROOT}/{dataset}/" (lines 112-113)
StagingPrefix(dataset) == STAGING_ROOT \o <<"/">> \o dataset \o <<"/">>
OutputPrefix(dataset) == OUTPUT_ROOT \o <<"/">> \o dataset \o <<"/">>

\* GLUE_CRAWLER_NAME or f"crawler-{dataset}", with GLUE_CRAWLER_NAME unset
CrawlerName(dataset) == <<"c","r","a","w","l","e","r","-">> \o dataset

\* ------------------------------------------------------------------------
\* Structured router: records, objects, exceptions
\* ------------------------------------------------------------------------
KeyA == <<"i","/","a","_","1",".","c","s","v">>
KeyB == <<"i","/","b",".","j","s","o","n">>
KeyT == <<"i","/","n",".","t","x","t">>
KeyE == <<"i","/","A","%","5","F","2",".","C","S","V">>

\* A record of the event: rec["s3"]["bucket"]["name"] and
\* rec["s3"]["object"]["key"]; a malformed record lacks them
Record(b, k) == [wellFormed |-> TRUE, bucket |-> b, key |-> k]
Malformed == [wellFormed |-> FALSE, bucket |-> BUCKET, key |-> <<>>]

RecordPool ==
    { Record(BUCKET, KeyA), Record(BUCKET, KeyB), Record(BUCKET, KeyT),
      Record("other-bucket", KeyA), Record(BUCKET, KeyE), Malformed }

Events == UNION {[1..n -> RecordPool] : n \in 0..MaxRecords}

\* the decoded keys the well-formed records of an event name
EventKeys(ev) ==
    {Unquote(ev[i].key) : i \in {j \in 1..Len(ev) : ev[j].wellFormed}}

\* An exception: its class and the length of str(e)
Exc(type, len) == [type |-> type, len |-> len]
NoExc == Exc("none", 0)
MsgLens == {40, 300}

\* How lambda_handler ended: {"ok": True} returned, or an exception raised
Outcome(status, exc) == [status |-> status, exc |-> exc]

\* reason[:255] (line 54)
ReasonLimit == 255
Truncate(reason) == Exc(reason.type, Min(reason.len, ReasonLimit))

\* An object: the content (named by the key it was uploaded under) and the
\* ingest_error metadata, NoExc when it has none
Object(data, meta) == [data |-> data, meta |-> meta]

Put(st, k, obj) ==
    [x \in DOMAIN st \cup {k} |-> IF x = k THEN obj ELSE st[x]]
Remove(st, k) == [x \in DOMAIN st \ {k} |-> st[x]]

\* One call of the S3 or Glue client, with its outcome
Call(op, src, dst, res) == [op |-> op, src |-> src, dst |-> dst, res |-> res]

\* the outcomes of glue.start_crawler: the three the function catches by
\* class (lines 64-69) and an exception that is no ClientError
CrawlOutcomes ==
    {"ok", "CrawlerRunningException", "EntityNotFoundException",
     "ClientError", "OtherError"}

\* whether _start_crawler lets the outcome escape (lines 61-69)
CrawlerRaises(out) ==
    out \notin {"ok", "CrawlerRunningException", "EntityNotFoundException",
                "ClientError"}

\* FilterOutcome without the test of the bucket
FilterOutcome_NoBucketCheck(bucket, key) ==
    IF SplitExt(Lower(key))[2] \notin _VALID_EXT THEN "ignore"
    ELSE "stage"

\* the filter of lines 93-99 on the decoded key and the bucket
FilterOutcome(bucket, key) ==
    IF SplitExt(Lower(key))[2] \notin _VALID_EXT THEN "ignore"
    ELSE IF bucket # BUCKET THEN "skip"
    ELSE "stage"

\* QuarantineSource moving the staged copy instead of the source
QuarantineSource_Staged(src, staged) == staged

\* the key _move_to_errors is called with (line 128)
QuarantineSource(src, staged) == src

\* ReRaised letting a failure of the quarantine replace the original error
ReRaised_MoveErr(orig, moveErr) == IF moveErr # NoExc THEN moveErr ELSE orig

\* the exception the bare raise of line 131 raises
ReRaised(orig, moveErr) == orig

\* ------------------------------------------------------------------------
\* Unstructured router (lambda_pdf_function.py): lambda_handler
\* ------------------------------------------------------------------------
\* the defaults of _chunk_text, which the handler calls with the text alone
DEFAULT_TARGET_CHARS == 3200
DEFAULT_MAX_CHARS == 4000
DEFAULT_OVERLAP_CHARS == 200
EMBED_DIM == 1024

KeyPdf == <<"d","/","r",".","p","d","f">>
KeyPdfUpper == <<"d","/","R","%","2","D","1",".","P","D","F">>

PdfRecordPool ==
    { Record(BUCKET, KeyPdf), Record(BUCKET, KeyPdfUpper),
      Record(BUCKET, KeyT), Malformed }

PdfEvents == UNION {[1..n -> PdfRecordPool] : n \in 0..MaxRecords}

\* n times the character c
Rep(c, n) == [i \in 1..n |-> c]

\* The texts an extraction may return: none, one short paragraph, one long
\* paragraph, two short paragraphs and a long one, and three paragraphs
\* that fill two chunks
TwoShortOneLong == <<"a", NL, NL, "b", NL, NL>> \o Rep("a", 5000)

PdfTexts ==
    { <<>>,
      <<"a", "b">>,
      Rep("a", 5000),
      TwoShortOneLong,
      Rep("a", 3000) \o <<NL, NL>> \o Rep("b", 3900) \o <<NL, NL>> \o <<"c">> }

\* the test of the suffix without the lower-casing
EndsWithPdf_CaseSensitive(key) ==
    /\ Len(key) >= 4
    /\ SubSeq(key, Len(key) - 3, Len(key)) = <<".","p","d","f">>

\* key.lower().endswith(".pdf") (line 242)
EndsWithPdf(key) ==
    /\ Len(key) >= 4
    /\ SubSeq(Lower(key), Len(key) - 3, Len(key)) = <<".","p","d","f">>

\* f"s3://{bucket}/{key}" (line 260)
S3Uri(bucket, key) == [bucket |-> bucket, key |-> key]

\* title or os.path.basename(urlparse(s3_uri).path) (line 130)
Title(s3_uri) == Basename(s3_uri.key)

\* How the handler ended: the skip result, the ok result with the document
\* id and the number of chunks, or an exception
PdfOutcome(status, exc, doc, n) ==
    [status |-> status, exc |-> exc, document_id |-> doc, chunks |-> n]

\* a row of documents and a row of doc_chunks
DocumentRow(id, s3_uri) == [id |-> id, s3_uri |-> s3_uri, title |-> Title(s3_uri)]
\* a chunk row whose offsets start again at 0 for every chunk
ChunkRow_OffsetsPerChunk(d, i, s, en, t) ==
    [document_id |-> d, chunk_index |-> i, char_start |-> 0,
     char_end |-> en - s, text |-> t]

ChunkRow(d, i, s, en, t) ==
    [document_id |-> d, chunk_index |-> i, char_start |-> s, char_end |-> en,
     text |-> t]

\* a row of an earlier ingestion
PriorDocuments == <<DocumentRow(1, S3Uri(BUCKET, KeyPdf))>>
PriorChunks == <<ChunkRow(1, 0, 0, 2, <<"a", "b">>)>>

PdfIdle ==
    /\ pdf_event = <<>>
    /\ os_endpoint = FALSE
    /\ index_exists = FALSE
    /\ pdf_key = <<>>
    /\ pdf_text = <<>>
    /\ pdf_chunks = <<>>
    /\ vectors = <<>>
    /\ documents = <<>>
    /\ doc_chunks = <<>>
    /\ doc_id = 0
    /\ offset = 0
    /\ index_docs = <<>>
    /\ pdf_result = PdfOutcome("none", NoExc, 0, 0)
    /\ hpc = "idle"

\* ------------------------------------------------------------------------
\* Specification of the chunker: the inputs are drawn, then chunked
\* ------------------------------------------------------------------------
Texts == UNION {[1..n -> Chars] : n \in 0..MaxTextLen}

InvIdle ==
    /\ inv_pc = <<>>
    /\ inv_e = <<>>
    /\ inv_store = <<>>

DatasetIdle ==
    /\ ds_key = <<>>
    /\ ds_value = <<>>
    /\ dpc = "idle"

ChunkIdle ==
    /\ text = <<>>
    /\ target_chars = 1
    /\ max_chars = 1
    /\ overlap_chars = 0
    /\ chunks = <<>>
    /\ cpc = "idle"

TextractIdle ==
    /\ max_wait = 0
    /\ waited = 0
    /\ statuses = <<>>
    /\ polls = 0
    /\ pages = <<>>
    /\ fetches = 0
    /\ blocks = <<>>
    /\ next_token = FALSE
    /\ ttext = <<>>
    /\ tpc = "idle"

RouterIdle ==
    /\ event = <<>>
    /\ enable_crawler = FALSE
    /\ rec_i = 1
    /\ src_key = <<>>
    /\ e = NoExc
    /\ move_err = NoExc
    /\ store = <<>>
    /\ calls = <<>>
    /\ log = <<>>
    /\ crawls = <<>>
    /\ jobs = <<>>
    /\ result = Outcome("none", NoExc)
    /\ rpc = "idle"

InitChunk ==
    /\ InvIdle
    /\ DatasetIdle
    /\ PdfIdle
    /\ TextractIdle
    /\ RouterIdle
    /\ \/ /\ text \in Texts
          /\ target_chars \in 1..MaxTarget
          /\ max_chars \in target_chars..(target_chars + MaxSlack)
          /\ overlap_chars \in 0..(target_chars - 1)
       \/ \* the sizes the handler calls _chunk_text with (lines 171-173)
          /\ text \in PdfTexts
          /\ target_chars = DEFAULT_TARGET_CHARS
          /\ max_chars = DEFAULT_MAX_CHARS
          /\ overlap_chars = DEFAULT_OVERLAP_CHARS
    /\ chunks = <<>>
    /\ cpc = "start"

ChunkText ==
    /\ cpc = "start"
    /\ chunks' = _chunk_text(text, target_chars, max_chars, overlap_chars)
    /\ cpc' = "done"
    /\ UNCHANGED <<text, target_chars, max_chars, overlap_chars>>
    /\ UNCHANGED <<textractVars, routerVars, pdfVars, datasetVars,
                   invVars>>

NextChunk == ChunkText

SpecChunk == InitChunk /\ [][NextChunk]_vars

\* C1: every chunk returned by _chunk_text has length <= max_chars.
C1_EveryChunkWithinMax ==
    cpc = "done" => \A i \in 1..Len(chunks) : Len(chunks[i]) <= max_chars

\* ------------------------------------------------------------------------
\* _textract_text: submit, poll, collect the pages
\* ------------------------------------------------------------------------
\* time.sleep(2); waited += 2
PollInterval == 2

\* JobStatus as the loop tells it apart: the two values it tests, and
\* "RUNNING" for every other value
JobStatuses == {"RUNNING", "SUCCEEDED", "FAILED"}

\* The blocks a page may hold: lines with text, a block of another kind,
\* and a line without text
BlockKinds ==
    { [BlockType |-> "LINE", HasText |-> TRUE, Text |-> <<"x">>],
      [BlockType |-> "LINE", HasText |-> TRUE, Text |-> <<"y">>],
      [BlockType |-> "WORD", HasText |-> TRUE, Text |-> <<"w">>],
      [BlockType |-> "LINE", HasText |-> FALSE, Text |-> <<>>] }

\* the pages a response may carry when `have` blocks were served before it
PageChoices(have) == UNION {[1..n -> BlockKinds] : n \in 0..(MaxBlocks - have)}

\* [b["Text"] for b in blocks if b.get("BlockType") == "LINE" and "Text" in b]
IsTextLine(b) == b.BlockType = "LINE" /\ b.HasText

\* the text of every block, whatever its kind
LineTexts_Unfiltered(bs) == [i \in 1..Len(bs) |-> bs[i].Text]

RECURSIVE LineTexts(_)
LineTexts(bs) ==
    IF bs = <<>> THEN <<>>
    ELSE (IF IsTextLine(Head(bs)) THEN <<Head(bs).Text>> ELSE <<>>)
         \o LineTexts(Tail(bs))

\* "\n".join(lines)
RECURSIVE JoinLines(_)
JoinLines(ls) ==
    IF ls = <<>> THEN <<>>
    ELSE IF Len(ls) = 1 THEN Head(ls)
    ELSE Head(ls) \o <<NL>> \o JoinLines(Tail(ls))

\* PollOutcome with the timeout test written `waited > max_wait`
PollOutcome_StrictTimeout(status, w, mw) ==
    IF status = "SUCCEEDED" THEN "collect"
    ELSE IF status = "FAILED" THEN "failed"
    ELSE IF w > mw THEN "timeout"
    ELSE "sleep"

\* PollOutcome without the test for FAILED
PollOutcome_IgnoresFailed(status, w, mw) ==
    IF status = "SUCCEEDED" THEN "collect"
    ELSE IF w >= mw THEN "timeout"
    ELSE "sleep"

\* What one iteration of the poll loop does with the status it read
\* (lines 214-220): leave the loop, raise, or sleep and poll again
PollOutcome(status, w, mw) ==
    IF status = "SUCCEEDED" THEN "collect"
    ELSE IF status = "FAILED" THEN "failed"
    ELSE IF w >= mw THEN "timeout"
    ELSE "sleep"

InitTextract ==
    /\ InvIdle
    /\ DatasetIdle
    /\ PdfIdle
    /\ ChunkIdle
    /\ RouterIdle
    /\ max_wait \in (-1)..MaxWait
    /\ waited = 0
    /\ statuses = <<>>
    /\ polls = 0
    /\ pages = <<>>
    /\ fetches = 0
    /\ blocks = <<>>
    /\ next_token = FALSE
    /\ ttext = <<>>
    /\ tpc = "start"

\* head_object and start_document_text_detection (lines 200-207)
Submit ==
    /\ tpc = "start"
    /\ \E ok \in BOOLEAN : tpc' = IF ok THEN "polling" ELSE "error"
    /\ UNCHANGED <<max_wait, waited, statuses, polls, pages, fetches, blocks,
                   next_token, ttext>>
    /\ UNCHANGED <<chunkVars, routerVars, pdfVars, datasetVars,
                   invVars>>

\* one get_document_text_detection(JobId) and the tests on its status
\* (lines 212-219); a SUCCEEDED response carries the first page
Poll ==
    /\ tpc = "polling"
    /\ \/ /\ tpc' = "error"
          /\ UNCHANGED <<statuses, polls, pages, blocks, next_token>>
       \/ \E status \in JobStatuses :
            /\ polls' = polls + 1
            /\ statuses' = Append(statuses, status)
            /\ tpc' = PollOutcome(status, waited, max_wait)
            /\ IF status = "SUCCEEDED"
               THEN \E page \in PageChoices(0), more \in BOOLEAN :
                        /\ (more => MaxPages > 1)
                        /\ pages' = <<page>>
                        /\ blocks' = page
                        /\ next_token' = more
               ELSE UNCHANGED <<pages, blocks, next_token>>
    /\ UNCHANGED <<max_wait, waited, fetches, ttext>>
    /\ UNCHANGED <<chunkVars, routerVars, pdfVars, datasetVars,
                   invVars>>

\* time.sleep(2); waited += 2 (line 220)
Sleep ==
    /\ tpc = "sleep"
    /\ waited' = waited + PollInterval
    /\ tpc' = "polling"
    /\ UNCHANGED <<max_wait, statuses, polls, pages, fetches, blocks,
                   next_token, ttext>>
    /\ UNCHANGED <<chunkVars, routerVars, pdfVars, datasetVars,
                   invVars>>

\* one iteration of the page loop (lines 224-227)
FetchPage ==
    /\ tpc = "collect"
    /\ next_token
    /\ \/ /\ tpc' = "error"
          /\ UNCHANGED <<pages, fetches, blocks, next_token>>
       \/ \E page \in PageChoices(Len(blocks)), more \in BOOLEAN :
            /\ (more => Len(pages) + 1 < MaxPages)
            /\ fetches' = fetches + 1
            /\ pages' = Append(pages, page)
            /\ blocks' = blocks \o page
            /\ next_token' = more
            /\ tpc' = "collect"
    /\ UNCHANGED <<max_wait, waited, statuses, polls, ttext>>
    /\ UNCHANGED <<chunkVars, routerVars, pdfVars, datasetVars,
                   invVars>>

\* the filter and the join (lines 229-230)
ReturnText ==
    /\ tpc = "collect"
    /\ ~next_token
    /\ ttext' = JoinLines(LineTexts(blocks))
    /\ tpc' = "done"
    /\ UNCHANGED <<max_wait, waited, statuses, polls, pages, fetches, blocks,
                   next_token>>
    /\ UNCHANGED <<chunkVars, routerVars, pdfVars, datasetVars,
                   invVars>>

NextTextract == Submit \/ Poll \/ Sleep \/ FetchPage \/ ReturnText

\* Every step of _textract_text is a synchronous call or a sleep of the one
\* thread running it: the function keeps running until it returns or raises.
SpecTextract == InitTextract /\ [][NextTextract]_vars /\ WF_vars(NextTextract)

AllRunning == \A i \in 1..Len(statuses) : statuses[i] = "RUNNING"
TextractEnded == tpc \in {"done", "failed", "timeout", "error"}

\* ------------------------------------------------------------------------
\* Structured router: lambda_handler, one action per call
\* ------------------------------------------------------------------------
InitRouter ==
    /\ InvIdle
    /\ DatasetIdle
    /\ PdfIdle
    /\ ChunkIdle
    /\ TextractIdle
    /\ event \in Events
    /\ enable_crawler \in BOOLEAN
    /\ rec_i = 1
    /\ src_key = <<>>
    /\ e = NoExc
    /\ move_err = NoExc
    /\ \E present \in SUBSET EventKeys(event) :
           store = [k \in present |-> Object(k, NoExc)]
    /\ calls = <<>>
    /\ log = <<>>
    /\ crawls = <<>>
    /\ jobs = <<>>
    /\ result = Outcome("none", NoExc)
    /\ rpc = "loop"

\* lines 89-99: the next record is read and filtered
Filter ==
    /\ rpc = "loop"
    /\ rec_i <= Len(event)
    /\ LET rec == event[rec_i] IN
       IF ~rec.wellFormed
       THEN /\ e' = Exc("KeyError", 4)
            /\ rpc' = "except"
            /\ UNCHANGED <<src_key, rec_i, log>>
       ELSE LET key == Unquote(rec.key)
                out == FilterOutcome(rec.bucket, key)
            IN  /\ src_key' = key
                /\ log' = Append(log, out)
                /\ IF out = "stage"
                   THEN rpc' = "copy" /\ UNCHANGED rec_i
                   ELSE rpc' = "loop" /\ rec_i' = rec_i + 1
                /\ UNCHANGED e
    /\ UNCHANGED <<event, enable_crawler, move_err, store, calls, crawls,
                   jobs, result>>
    /\ UNCHANGED <<chunkVars, textractVars, pdfVars, datasetVars,
                   invVars>>

\* line 133
ReturnOk ==
    /\ rpc = "loop"
    /\ rec_i > Len(event)
    /\ result' = Outcome("ok", NoExc)
    /\ rpc' = "returned"
    /\ UNCHANGED <<event, enable_crawler, rec_i, src_key, e, move_err, store,
                   calls, log, crawls, jobs>>
    /\ UNCHANGED <<chunkVars, textractVars, pdfVars, datasetVars,
                   invVars>>

\* _copy_then_delete, s3.copy_object (lines 39-43)
StageCopy ==
    /\ rpc = "copy"
    /\ LET dst == StagingKey(src_key) IN
       \/ /\ src_key \in DOMAIN store
          /\ store' = Put(store, dst, store[src_key])
          /\ calls' = Append(calls, Call("copy_object", src_key, dst, "ok"))
          /\ rpc' = "delete"
          /\ UNCHANGED e
       \/ \E len \in MsgLens :
            /\ e' = Exc(IF src_key \in DOMAIN store
                        THEN "CopyError" ELSE "NoSuchKey", len)
            /\ calls' = Append(calls,
                               Call("copy_object", src_key, dst, e'.type))
            /\ rpc' = "except"
            /\ UNCHANGED store
    /\ UNCHANGED <<event, enable_crawler, rec_i, src_key, move_err, log,
                   crawls, jobs, result>>
    /\ UNCHANGED <<chunkVars, textractVars, pdfVars, datasetVars,
                   invVars>>

\* _copy_then_delete, s3.delete_object (line 44)
StageDelete ==
    /\ rpc = "delete"
    /\ \/ /\ store' = Remove(store, src_key)
          /\ calls' = Append(calls, Call("delete_object", src_key, <<>>, "ok"))
          /\ rpc' = IF enable_crawler THEN "crawl" ELSE "job"
          /\ UNCHANGED e
       \/ \E len \in MsgLens :
            /\ e' = Exc("DeleteError", len)
            /\ calls' = Append(calls,
                               Call("delete_object", src_key, <<>>, e'.type))
            /\ rpc' = "except"
            /\ UNCHANGED store
    /\ UNCHANGED <<event, enable_crawler, rec_i, src_key, move_err, log,
                   crawls, jobs, result>>
    /\ UNCHANGED <<chunkVars, textractVars, pdfVars, datasetVars,
                   invVars>>

\* _start_crawler (lines 59-69), called when ENABLE_CRAWLER (line 109)
StartCrawler ==
    /\ rpc = "crawl"
    /\ LET name == CrawlerName(_dataset_from_key(src_key)) IN
       \E out \in CrawlOutcomes :
         /\ calls' = Append(calls, Call("start_crawler", name, <<>>, out))
         /\ crawls' = IF out = "ok" THEN Append(crawls, name) ELSE crawls
         /\ IF CrawlerRaises(out)
            THEN /\ \E len \in MsgLens : e' = Exc(out, len)
                 /\ rpc' = "except"
                 /\ UNCHANGED log
            ELSE /\ log' = Append(log, out)
                 /\ rpc' = "job"
                 /\ UNCHANGED e
    /\ UNCHANGED <<event, enable_crawler, rec_i, src_key, move_err, store,
                   jobs, result>>
    /\ UNCHANGED <<chunkVars, textractVars, pdfVars, datasetVars,
                   invVars>>

\* _start_glue_job (lines 71-81) and the report of lines 116-122
StartGlueJob ==
    /\ rpc = "job"
    /\ LET ds == _dataset_from_key(src_key) IN
       \/ /\ jobs' = Append(jobs, [dataset |-> ds,
                                   staging_prefix |-> StagingPrefix(ds),
                                   output_prefix |-> OutputPrefix(ds)])
          /\ calls' = Append(calls, Call("start_job_run", ds, <<>>, "ok"))
          /\ log' = Append(log, "ok")
          /\ rec_i' = rec_i + 1
          /\ rpc' = "loop"
          /\ UNCHANGED e
       \/ \E len \in MsgLens :
            /\ e' = Exc("JobError", len)
            /\ calls' = Append(calls, Call("start_job_run", ds, <<>>, e'.type))
            /\ rpc' = "except"
            /\ UNCHANGED <<jobs, log, rec_i>>
    /\ UNCHANGED <<event, enable_crawler, src_key, move_err, store, crawls,
                   result>>
    /\ UNCHANGED <<chunkVars, textractVars, pdfVars, datasetVars,
                   invVars>>

\* line 127: no key was ever assigned (or it is empty), nothing is moved
NoQuarantine ==
    /\ rpc = "except"
    /\ src_key = <<>>
    /\ rpc' = "raise"
    /\ UNCHANGED <<event, enable_crawler, rec_i, src_key, e, move_err, store,
                   calls, log, crawls, jobs, result>>
    /\ UNCHANGED <<chunkVars, textractVars, pdfVars, datasetVars,
                   invVars>>

\* a copy that writes an empty object under the new metadata when the
\* source is missing
CopiedObject_Placeholder(st, src, meta) ==
    {Object(IF src \in DOMAIN st THEN st[src].data ELSE <<>>, meta)}

\* What s3.copy_object with MetadataDirective REPLACE (lines 49-55) writes
\* at the destination: the source's content under the new metadata, and
\* nothing when the source object does not exist
CopiedObject(st, src, meta) ==
    IF src \in DOMAIN st THEN {Object(st[src].data, meta)} ELSE {}

\* _move_to_errors, s3.copy_object (lines 47-55); a failure is caught at
\* line 129
QuarantineCopy ==
    /\ rpc = "except"
    /\ src_key # <<>>
    /\ LET src == QuarantineSource(src_key, StagingKey(src_key))
           dst == ErrorKey(src)
       IN  \/ /\ \E obj \in CopiedObject(store, src, Truncate(e)) :
                   store' = Put(store, dst, obj)
              /\ calls' = Append(calls, Call("copy_object", src, dst, "ok"))
              /\ rpc' = "qdelete"
              /\ UNCHANGED <<move_err, log>>
           \/ \E len \in MsgLens :
                /\ move_err' = Exc(IF src \in DOMAIN store
                                   THEN "CopyError" ELSE "NoSuchKey", len)
                /\ calls' = Append(calls,
                                   Call("copy_object", src, dst, move_err'.type))
                /\ log' = Append(log, "fatal")
                /\ rpc' = "raise"
                /\ UNCHANGED store
    /\ UNCHANGED <<event, enable_crawler, rec_i, src_key, e, crawls, jobs,
                   result>>
    /\ UNCHANGED <<chunkVars, textractVars, pdfVars, datasetVars,
                   invVars>>

\* _move_to_errors, s3.delete_object and the print (lines 56-57)
QuarantineDelete ==
    /\ rpc = "qdelete"
    /\ LET src == QuarantineSource(src_key, StagingKey(src_key)) IN
       \/ /\ store' = Remove(store, src)
          /\ calls' = Append(calls, Call("delete_object", src, <<>>, "ok"))
          /\ log' = Append(log, "moved")
          /\ UNCHANGED move_err
       \/ \E len \in MsgLens :
            /\ move_err' = Exc("DeleteError", len)
            /\ calls' = Append(calls,
                               Call("delete_object", src, <<>>, move_err'.type))
            /\ log' = Append(log, "fatal")
            /\ UNCHANGED store
    /\ rpc' = "raise"
    /\ UNCHANGED <<event, enable_crawler, rec_i, src_key, e, crawls, jobs,
                   result>>
    /\ UNCHANGED <<chunkVars, textractVars, pdfVars, datasetVars,
                   invVars>>

\* line 131: the handler ends with an exception
Raise ==
    /\ rpc = "raise"
    /\ result' = Outcome("raised", ReRaised(e, move_err))
    /\ rpc' = "raised"
    /\ UNCHANGED <<event, enable_crawler, rec_i, src_key, e, move_err, store,
                   calls, log, crawls, jobs>>
    /\ UNCHANGED <<chunkVars, textractVars, pdfVars, datasetVars,
                   invVars>>

NextRouter ==
    \/ Filter \/ ReturnOk \/ StageCopy \/ StageDelete \/ StartCrawler
    \/ StartGlueJob \/ NoQuarantine \/ QuarantineCopy \/ QuarantineDelete
    \/ Raise

SpecRouter == InitRouter /\ [][NextRouter]_vars

\* C2 (as claimed): with all polls RUNNING, max_wait = 4 and interval 2, the
\* timeout is raised after exactly 2 status polls.
C2_TimeoutAfterTwoPolls ==
    (tpc = "timeout" /\ AllRunning /\ max_wait = 4) => polls = 2

\* C2 (amended): the driver always ends; when every poll returned RUNNING
\* and no call raised it ends in the timeout error, raised by the first poll
\* made with waited >= max_wait, which is poll number waited / 2 + 1: with
\* max_wait = 4 and interval 2 exactly 3 status polls (at 0, 2 and 4 s).
C2_TimeoutAfterThreePolls ==
    /\ <>TextractEnded
    /\ [](AllRunning /\ TextractEnded /\ tpc # "error" => tpc = "timeout")
    /\ [](tpc = "timeout" =>
            /\ AllRunning
            /\ waited >= max_wait
            /\ waited - PollInterval < max_wait
            /\ polls = (waited \div PollInterval) + 1
            /\ (max_wait = 4 => polls = 3))

C2_Witness ==
    tpc = "timeout" /\ AllRunning /\ max_wait = 4 /\ polls = 3 /\ waited = 4

\* C3: polling stops exactly at the first SUCCEEDED or FAILED status: every
\* status before the last one observed is RUNNING, so k RUNNING responses
\* followed by a terminal one make exactly k + 1 status polls; SUCCEEDED goes
\* on to result collection and FAILED raises without any further call.
C3_StopsAtFirstTerminal ==
    LET n == Len(statuses) IN
    /\ polls = n
    /\ \A i \in 1..(n - 1) : statuses[i] = "RUNNING"
    /\ (n > 0 /\ statuses[n] = "SUCCEEDED") => tpc \in {"collect", "done", "error"}
    /\ (n > 0 /\ statuses[n] = "FAILED") => (tpc = "failed" /\ fetches = 0)
    /\ tpc \in {"collect", "done"} => (n > 0 /\ statuses[n] = "SUCCEEDED")
    /\ tpc = "failed" => (n > 0 /\ statuses[n] = "FAILED")

C3_Witness ==
    /\ tpc = "collect"
    /\ statuses = <<"RUNNING", "RUNNING", "SUCCEEDED">>
    /\ polls = 3
    /\ waited < max_wait

\* ------------------------------------------------------------------------
\* Structured router: claims
\* ------------------------------------------------------------------------
\* the handler is in, or past, the except block of line 124
InFailure == rpc \in {"except", "qdelete", "raise", "raised"}

\* C4: a failing record does not abort its siblings: when the handler ends,
\* every record of the batch has been processed.
C4_SiblingsStillProcessed ==
    rpc \in {"raised", "returned"} => rec_i >= Len(event)

\* C5: a record that failed after its key was known is quarantined: at the
\* end of the run its object is at <error root>/<today>/<basename>, tagged
\* with the failure reason, and no longer at the source key. (Runs whose
\* input never existed, or whose quarantine calls S3 itself failed, are left
\* out.)
C5_FailedInputQuarantined ==
    (/\ rpc = "raised"
     /\ event[rec_i].wellFormed
     /\ e.type # "NoSuchKey"
     /\ move_err.type \notin {"CopyError", "DeleteError"})
    => LET k == Unquote(event[rec_i].key) IN
       /\ ErrorKey(k) \in DOMAIN store
       /\ store[ErrorKey(k)] = Object(k, Truncate(e))
       /\ k \notin DOMAIN store

\* index of the last call of calls with operation op, 0 when there is none
LastCall(op) ==
    LET I == {i \in 1..Len(calls) : calls[i].op = op} IN
    IF I = {} THEN 0 ELSE CHOOSE i \in I : \A j \in I : j <= i

\* C6: when the transform trigger fails after the relocation, the failure
\* handling works on the original source key only: every S3 call after the
\* failed trigger names the source key (copy to the error key, delete), and
\* the staged copy is still in place, unchanged, up to the handler's exit.
C6_StagedCopyKeptOnJobFailure ==
    (InFailure /\ e.type = "JobError")
    => LET k == Unquote(event[rec_i].key)
           j == LastCall("start_job_run")
       IN  /\ StagingKey(k) \in DOMAIN store
           /\ store[StagingKey(k)] = Object(k, NoExc)
           /\ \A i \in (j + 1)..Len(calls) :
                 /\ calls[i].op \in {"copy_object", "delete_object"}
                 /\ calls[i].src = k
                 /\ calls[i].op = "copy_object" => calls[i].dst = ErrorKey(k)
           /\ rpc \in {"raise", "raised"} => j < Len(calls)

C6_Witness ==
    /\ rpc = "raised"
    /\ e.type = "JobError"
    /\ StagingKey(src_key) \in DOMAIN store
    /\ calls[Len(calls)].op = "copy_object"
    /\ calls[Len(calls)].src = Unquote(event[rec_i].key)

\* the calls whose failure leaves the try block of lines 90-122
Propagating ==
    {i \in 1..Len(calls) :
        calls[i].res \notin {"ok", "CrawlerRunningException",
                             "EntityNotFoundException", "ClientError"}}

\* C7: a failed run ends with the original exception of the failed step (the
\* first failed call, or the KeyError of a malformed record), also when the
\* quarantine failed, which is logged; a run with a failure never returns
\* the success result.
C7_OriginalErrorSurfaced ==
    /\ rpc = "raised" =>
          /\ result = Outcome("raised", e)
          /\ e # NoExc
          /\ IF ~event[rec_i].wellFormed THEN e.type = "KeyError"
             ELSE /\ Propagating # {}
                  /\ e.type =
                       calls[CHOOSE i \in Propagating :
                                 \A j \in Propagating : i <= j].res
          /\ move_err # NoExc => log[Len(log)] = "fatal"
    /\ rpc = "returned" => (result = Outcome("ok", NoExc) /\ Propagating = {})
    /\ (e # NoExc \/ Propagating # {}) => result.status # "ok"

C7_Witness ==
    /\ rpc = "raised"
    /\ move_err # NoExc
    /\ move_err # e
    /\ result.exc = e

\* a record the filter does not accept: extension not csv or json, or a
\* bucket other than the configured one
IsSkipped(rec) ==
    \/ SplitExt(Lower(Unquote(rec.key)))[2]
          \notin { <<".","c","s","v">>, <<".","j","s","o","n">> }
    \/ rec.bucket # BUCKET

\* C8: the step that handles a skipped record goes on to the next record
\* without an error and changes neither the object store nor the scheduler:
\* no S3 or Glue call is made.
C8_SkippedRecordChangesNothing ==
    [][(/\ rpc = "loop"
        /\ rec_i <= Len(event)
        /\ event[rec_i].wellFormed
        /\ IsSkipped(event[rec_i]))
       => (/\ store' = store
           /\ calls' = calls
           /\ crawls' = crawls
           /\ jobs' = jobs
           /\ e' = e
           /\ rpc' = "loop"
           /\ rec_i' = rec_i + 1)]_vars

C8_Witness ==
    /\ rpc = "returned"
    /\ Len(event) = 2
    /\ event[1] = Record(BUCKET, KeyT)
    /\ event[2] = Record("other-bucket", KeyA)
    /\ calls = <<>>
    /\ DOMAIN store = {KeyT, KeyA}
    /\ result.status = "ok"

\* C9: whatever start_crawler answers, the flow goes on: the call after a
\* start_crawler call is the start_job_run of the same record.
C9_CrawlerFailureNeverAborts ==
    \A i \in 1..Len(calls) :
        calls[i].op = "start_crawler"
        => IF i = Len(calls) THEN rpc = "job"
           ELSE calls[i + 1].op = "start_job_run"

InitPdf ==
    /\ InvIdle
    /\ DatasetIdle
    /\ ChunkIdle
    /\ TextractIdle
    /\ RouterIdle
    /\ pdf_event \in PdfEvents
    /\ os_endpoint \in BOOLEAN
    /\ index_exists \in BOOLEAN
    /\ pdf_key = <<>>
    /\ pdf_text = <<>>
    /\ pdf_chunks = <<>>
    /\ vectors = <<>>
    /\ \E prior \in BOOLEAN :
         /\ documents = IF prior THEN PriorDocuments ELSE <<>>
         /\ doc_chunks = IF prior THEN PriorChunks ELSE <<>>
    /\ doc_id = 0
    /\ offset = 0
    /\ index_docs = <<>>
    /\ pdf_result = PdfOutcome("none", NoExc, 0, 0)
    /\ hpc = "start"

\* the handler ends with the exception (lines 274-279)
PdfRaise(type) ==
    /\ pdf_result' = PdfOutcome("raised", Exc(type, 40), 0, 0)
    /\ hpc' = "raised"

\* lines 235-243: the first record is read and the key tested
PdfStart ==
    /\ hpc = "start"
    /\ IF pdf_event = <<>> \/ ~pdf_event[1].wellFormed
       THEN PdfRaise("KeyError") /\ UNCHANGED pdf_key
       ELSE LET key == Unquote(pdf_event[1].key) IN
            /\ pdf_key' = key
            /\ IF EndsWithPdf(key)
               THEN hpc' = "extract" /\ UNCHANGED pdf_result
               ELSE /\ pdf_result' = PdfOutcome("skip", NoExc, 0, 0)
                    /\ hpc' = "returned"
    /\ UNCHANGED <<pdf_event, os_endpoint, index_exists, pdf_text, pdf_chunks,
                   vectors, documents, doc_chunks, doc_id, offset, index_docs>>
    /\ UNCHANGED <<chunkVars, textractVars, routerVars, datasetVars,
                   invVars>>

\* line 246: _textract_text returns a text or raises
Extract ==
    /\ hpc = "extract"
    /\ \/ \E t \in PdfTexts :
            /\ pdf_text' = t
            /\ hpc' = "chunk"
            /\ UNCHANGED pdf_result
       \/ \E type \in {"RuntimeError", "TimeoutError", "ClientError"} :
            PdfRaise(type) /\ UNCHANGED pdf_text
    /\ UNCHANGED <<pdf_event, os_endpoint, index_exists, pdf_key, pdf_chunks,
                   vectors, documents, doc_chunks, doc_id, offset, index_docs>>
    /\ UNCHANGED <<chunkVars, textractVars, routerVars, datasetVars,
                   invVars>>

\* line 250
Chunk ==
    /\ hpc = "chunk"
    /\ pdf_chunks' = _chunk_text(pdf_text, DEFAULT_TARGET_CHARS,
                                 DEFAULT_MAX_CHARS, DEFAULT_OVERLAP_CHARS)
    /\ hpc' = IF pdf_chunks' = <<>> THEN "connect" ELSE "embed"
    /\ UNCHANGED <<pdf_event, os_endpoint, index_exists, pdf_key, pdf_text,
                   vectors, documents, doc_chunks, doc_id, offset, index_docs,
                   pdf_result>>
    /\ UNCHANGED <<chunkVars, textractVars, routerVars, datasetVars,
                   invVars>>

\* PERSIST started after the first embedding instead of after the last
AfterEmbed_Interleaved(done, total) == "connect"

\* the loop of lines 255-256 ends when every chunk has its vector; line 261
\* follows
AfterEmbed(done, total) == IF done = total THEN "connect" ELSE "embed"

\* one iteration of the loop of lines 255-256: embed_text of the next chunk
EmbedChunk ==
    /\ hpc = "embed"
    /\ \/ /\ vectors' = Append(vectors, [dim |-> EMBED_DIM,
                                         chunk |-> Len(vectors)])
          /\ hpc' = AfterEmbed(Len(vectors'), Len(pdf_chunks))
          /\ UNCHANGED pdf_result
       \/ PdfRaise("EmbedError") /\ UNCHANGED vectors
    /\ UNCHANGED <<pdf_event, os_endpoint, index_exists, pdf_key, pdf_text,
                   pdf_chunks, documents, doc_chunks, doc_id, offset,
                   index_docs>>
    /\ UNCHANGED <<chunkVars, textractVars, routerVars, datasetVars,
                   invVars>>

\* store_document_and_chunks: _db_conn() (line 122)
DbConnect ==
    /\ hpc = "connect"
    /\ \/ hpc' = "insert_doc" /\ UNCHANGED pdf_result
       \/ PdfRaise("ConnectError")
    /\ UNCHANGED <<pdf_event, os_endpoint, index_exists, pdf_key, pdf_text,
                   pdf_chunks, vectors, documents, doc_chunks, doc_id, offset,
                   index_docs>>
    /\ UNCHANGED <<chunkVars, textractVars, routerVars, datasetVars,
                   invVars>>

\* store_document_and_chunks: INSERT INTO documents (lines 125-135)
InsertDocument ==
    /\ hpc = "insert_doc"
    /\ \/ LET id == Len(documents) + 1 IN
          /\ documents' = Append(documents,
                                 DocumentRow(id, S3Uri(pdf_event[1].bucket,
                                                       pdf_key)))
          /\ doc_id' = id
          /\ offset' = 0
          /\ hpc' = IF pdf_chunks = <<>> THEN "index" ELSE "insert_chunk"
          /\ UNCHANGED pdf_result
       \/ PdfRaise("InsertDocumentError")
          /\ UNCHANGED <<documents, doc_id, offset>>
    /\ UNCHANGED <<pdf_event, os_endpoint, index_exists, pdf_key, pdf_text,
                   pdf_chunks, vectors, doc_chunks, index_docs>>
    /\ UNCHANGED <<chunkVars, textractVars, routerVars, datasetVars,
                   invVars>>

\* the doc_chunks rows of the document being stored
OwnChunks == SelectSeq(doc_chunks, LAMBDA r : r.document_id = doc_id)

\* store_document_and_chunks: one iteration of the loop of lines 136-144
InsertChunk ==
    /\ hpc = "insert_chunk"
    /\ LET i == Len(OwnChunks)
           c == pdf_chunks[i + 1]
       IN  \/ /\ doc_chunks' = Append(doc_chunks,
                                      ChunkRow(doc_id, i, offset,
                                               offset + Len(c), c))
              /\ offset' = offset + Len(c)
              /\ hpc' = IF i + 1 = Len(pdf_chunks)
                        THEN "index" ELSE "insert_chunk"
              /\ UNCHANGED <<documents, pdf_result>>
           \/ \* the statement raises: nothing is rolled back, the rows
              \* inserted so far were committed statement by statement
              /\ PdfRaise("InsertChunkError")
              /\ UNCHANGED <<documents, doc_chunks, offset>>
    /\ UNCHANGED <<pdf_event, os_endpoint, index_exists, pdf_key, pdf_text,
                   pdf_chunks, vectors, doc_id, index_docs>>
    /\ UNCHANGED <<chunkVars, textractVars, routerVars, datasetVars,
                   invVars>>

\* An INDEX failure made to leave the handler instead of being swallowed
IndexFailure_Propagates(stage) == PdfRaise("IndexError")

\* A failed readiness check followed by the bulk write all the same
IndexFailure_BulkAnyway(stage) == hpc' = "bulk" /\ UNCHANGED pdf_result

\* The except blocks of lines 67-69 and 105-106, and the early returns of
\* lines 73-75, 64-66 and 77-79: the failure is logged, os_index_chunks
\* returns normally and the handler goes on to its return statement
IndexFailure(stage) == hpc' = "return" /\ UNCHANGED pdf_result

\* os_index_chunks up to the HEAD of _os_ensure_index (lines 72-79, 32-39,
\* 64-69)
OsEnsureIndex ==
    /\ hpc = "index"
    /\ IF ~os_endpoint THEN IndexFailure("endpoint unset")
       ELSE \E head \in {"200", "404", "other", "error"} :
              /\ head = "200" => index_exists
              /\ head = "404" => ~index_exists
              /\ CASE head = "200" -> hpc' = "bulk" /\ UNCHANGED pdf_result
                   [] head = "404" -> hpc' = "create" /\ UNCHANGED pdf_result
                   [] OTHER -> IndexFailure("index not ready")
    /\ UNCHANGED <<pdf_event, os_endpoint, index_exists, pdf_key, pdf_text,
                   pdf_chunks, vectors, documents, doc_chunks, doc_id, offset,
                   index_docs>>
    /\ UNCHANGED <<chunkVars, textractVars, routerVars, datasetVars,
                   invVars>>

\* _os_ensure_index: the PUT of the index (lines 40-63, 67-69)
OsCreateIndex ==
    /\ hpc = "create"
    /\ \/ index_exists' = TRUE /\ hpc' = "bulk" /\ UNCHANGED pdf_result
       \/ UNCHANGED index_exists /\ IndexFailure("index creation")
    /\ UNCHANGED <<pdf_event, os_endpoint, pdf_key, pdf_text, pdf_chunks,
                   vectors, documents, doc_chunks, doc_id, offset, index_docs>>
    /\ UNCHANGED <<chunkVars, textractVars, routerVars, datasetVars,
                   invVars>>

\* os_index_chunks: the bulk write (lines 81-106)
OsBulk ==
    /\ hpc = "bulk"
    /\ \/ /\ index_docs' = index_docs
                        \o [i \in 1..Min(Len(pdf_chunks), Len(vectors)) |->
                              [s3_uri |-> S3Uri(pdf_event[1].bucket, pdf_key),
                               doc_id |-> doc_id,
                               chunk_index |-> i - 1,
                               text |-> pdf_chunks[i],
                               embedding |-> vectors[i]]]
          /\ hpc' = "return"
          /\ UNCHANGED pdf_result
       \/ UNCHANGED index_docs /\ IndexFailure("bulk write")
    /\ UNCHANGED <<pdf_event, os_endpoint, index_exists, pdf_key, pdf_text,
                   pdf_chunks, vectors, documents, doc_chunks, doc_id, offset>>
    /\ UNCHANGED <<chunkVars, textractVars, routerVars, datasetVars,
                   invVars>>

\* lines 267-272
PdfReturn ==
    /\ hpc = "return"
    /\ pdf_result' = PdfOutcome("ok", NoExc, doc_id, Len(pdf_chunks))
    /\ hpc' = "returned"
    /\ UNCHANGED <<pdf_event, os_endpoint, index_exists, pdf_key, pdf_text,
                   pdf_chunks, vectors, documents, doc_chunks, doc_id, offset,
                   index_docs>>
    /\ UNCHANGED <<chunkVars, textractVars, routerVars, datasetVars,
                   invVars>>

NextPdf ==
    \/ PdfStart \/ Extract \/ Chunk \/ EmbedChunk \/ DbConnect
    \/ InsertDocument \/ InsertChunk \/ OsEnsureIndex \/ OsCreateIndex
    \/ OsBulk \/ PdfReturn

SpecPdf == InitPdf /\ [][NextPdf]_vars

\* C10: when the chunk-insert loop fails partway, the relational store holds
\* neither the document row of the run nor any of its chunk rows.
C10_NoPartialDocument ==
    (hpc = "raised" /\ pdf_result.exc.type = "InsertChunkError")
    => /\ \A i \in 1..Len(documents) : documents[i].id # doc_id
       /\ \A i \in 1..Len(doc_chunks) : doc_chunks[i].document_id # doc_id

\* the stages of os_index_chunks, up to the handler's return statement
IndexStage == {"index", "create", "bulk", "return"}

\* the document row of the run and all its chunk rows, in chunk order
Persisted ==
    /\ \E i \in 1..Len(documents) : documents[i].id = doc_id
    /\ [i \in 1..Len(OwnChunks) |-> OwnChunks[i].text] = pdf_chunks

\* a step taken in the INDEX stage keeps the relational store, stays in the
\* stage or returns, and returns the ok result
IndexStageStep ==
    hpc \in IndexStage =>
        /\ documents' = documents
        /\ doc_chunks' = doc_chunks
        /\ hpc' \in IndexStage \cup {"returned"}
        /\ hpc' = "returned" =>
             pdf_result' = PdfOutcome("ok", NoExc, doc_id, Len(pdf_chunks))

\* C11: from the moment PERSIST is done no outcome of the INDEX stage fails
\* the run or touches the relational store: the document row and all chunk
\* rows stay, and the handler returns the ok result with the document id
\* and the number of chunks.
C11_IndexFailureNeverFailsRun ==
    /\ [](hpc \in IndexStage => Persisted)
    /\ [][IndexStageStep]_vars

\* a run with chunks and an endpoint that returned ok with nothing indexed
C11_Witness ==
    /\ hpc = "returned"
    /\ pdf_result.status = "ok"
    /\ os_endpoint
    /\ pdf_chunks # <<>>
    /\ Persisted
    /\ \A i \in 1..Len(index_docs) : index_docs[i].doc_id # doc_id

\* the stage a position of the handler belongs to, in the order of the code
StageRank(pc) ==
    CASE pc = "start" -> 0
      [] pc = "extract" -> 1
      [] pc = "chunk" -> 2
      [] pc = "embed" -> 3
      [] pc \in {"connect", "insert_doc", "insert_chunk"} -> 4
      [] pc \in {"index", "create", "bulk"} -> 5
      [] OTHER -> 6

\* the exceptions of EXTRACT and EMBED
EarlyFailures == {"RuntimeError", "TimeoutError", "ClientError", "EmbedError"}

\* nothing of this run is in the relational store or in the index
NothingWritten ==
    /\ doc_id = 0
    /\ documents \in {<<>>, PriorDocuments}
    /\ doc_chunks \in {<<>>, PriorChunks}
    /\ index_docs = <<>>

\* C12: the stages run in the order EXTRACT, CHUNK, EMBED (every chunk),
\* PERSIST, INDEX; nothing is written before PERSIST, and a failure of
\* EXTRACT or EMBED ends the run with the error and nothing written.
C12_StagesInOrder ==
    /\ [][StageRank(hpc') >= StageRank(hpc)]_vars
    /\ [](StageRank(hpc) <= 3 => NothingWritten)
    /\ [](StageRank(hpc) \in {4, 5} => Len(vectors) = Len(pdf_chunks))
    /\ []((hpc = "raised" /\ pdf_result.exc.type \in EarlyFailures)
            => NothingWritten /\ pdf_result.status = "raised")

\* the embedding of a later chunk failed after an earlier one succeeded
C12_Witness ==
    /\ hpc = "raised"
    /\ pdf_result.exc.type = "EmbedError"
    /\ Len(vectors) >= 1
    /\ Len(vectors) < Len(pdf_chunks)

\* no stage of the run has produced anything
NoStageRan ==
    /\ pdf_text = <<>>
    /\ pdf_chunks = <<>>
    /\ vectors = <<>>
    /\ NothingWritten

\* C18: a key that does not end in .pdf, whatever the case of the letters,
\* ends the run with the skip result and no exception, and nothing has
\* been extracted, embedded, stored or indexed; keys that do end in .pdf in
\* any case are not skipped.
C18_NonPdfKeySkipped ==
    /\ (hpc # "start" /\ pdf_key = KeyT) =>
          /\ hpc = "returned"
          /\ pdf_result = PdfOutcome("skip", NoExc, 0, 0)
          /\ NoStageRan
    /\ pdf_result.status = "skip" => pdf_key = KeyT

\* the handler returned the skip result for the .txt key
C18_Witness ==
    /\ hpc = "returned"
    /\ pdf_result.status = "skip"
    /\ pdf_key = KeyT
    /\ NoStageRan

\* PERSIST has returned the document id
PersistDone ==
    hpc \in IndexStage \/ (hpc = "returned" /\ pdf_result.status = "ok")

\* C19: after a successful PERSIST of N chunks the rows of the document
\* have the ordinals 0..N-1 in chunk order, char_end - char_start is the
\* length of the text of every row, the first char_start is 0, every other
\* char_start is the char_end of the row before, and the offsets never
\* decrease.
C19_OrdinalsAndOffsets ==
    PersistDone =>
        LET own == OwnChunks IN
        /\ Len(own) = Len(pdf_chunks)
        /\ \A i \in 1..Len(own) :
             /\ own[i].chunk_index = i - 1
             /\ own[i].text = pdf_chunks[i]
             /\ own[i].char_end - own[i].char_start = Len(own[i].text)
             /\ own[i].char_start
                = (IF i = 1 THEN 0 ELSE own[i - 1].char_end)
             /\ own[i].char_start <= own[i].char_end
             /\ i > 1 => own[i - 1].char_start <= own[i].char_start

\* a document of three chunks stored next to an earlier document
C19_Witness ==
    /\ hpc = "returned"
    /\ pdf_result.status = "ok"
    /\ Len(OwnChunks) = 3
    /\ doc_id = 2
    /\ OwnChunks[3].char_start > 0

\* ------------------------------------------------------------------------
\* Properties of the chunker
\* ------------------------------------------------------------------------
\* the concatenation of a sequence of strings
RECURSIVE Concat(_)
Concat(ss) == IF ss = <<>> THEN <<>> ELSE Head(ss) \o Concat(Tail(ss))

\* the chunks of the run with the statement that emitted each
Trace == ChunkTrace(text, target_chars, max_chars, overlap_chars)

\* the paragraphs of the run, each followed by its newline (line 177)
Paragraphs ==
    LET ps == _split_paragraphs(text) IN
    [i \in 1..Len(ps) |-> Append(ps[i], NL)]

\* C13: the chunks without the overlap prefix each was seeded with,
\* concatenated in order, are the non-empty trimmed paragraphs, each
\* followed by one newline.
C13_NothingLostOrDuplicated ==
    cpc = "done" =>
        LET tr == Trace IN
        Concat([i \in 1..Len(tr) |-> DropFirst(tr[i].text, tr[i].seed)])
        = Concat(Paragraphs)

\* the smallest integer not below a / b
CeilDiv(a, b) == (a + b - 1) \div b

\* the text is one paragraph, longer than max_chars
SingleLongParagraph ==
    /\ Len(_split_paragraphs(text)) = 1
    /\ Len(_split_paragraphs(text)[1]) > max_chars

\* C14 as stated: a single paragraph of length L > max_chars gives exactly
\* ceil(L / target_chars) pieces, each of length <= target_chars.
C14_PiecesOfParagraphLength ==
    (cpc = "done" /\ SingleLongParagraph) =>
        /\ Len(chunks) = CeilDiv(Len(_split_paragraphs(text)[1]), target_chars)
        /\ \A i \in 1..Len(chunks) : Len(chunks[i]) <= target_chars

\* C14: a single paragraph of length L > max_chars is split together with
\* the newline appended to it: exactly ceil((L + 1) / target_chars) pieces,
\* each of length <= target_chars.
C14_PiecesOfParagraphAndNewline ==
    (cpc = "done" /\ SingleLongParagraph) =>
        /\ Len(chunks)
           = CeilDiv(Len(_split_paragraphs(text)[1]) + 1, target_chars)
        /\ \A i \in 1..Len(chunks) : Len(chunks[i]) <= target_chars

\* a long paragraph whose length is a multiple of the slice width
C14_Witness ==
    /\ cpc = "done"
    /\ SingleLongParagraph
    /\ target_chars >= 2
    /\ Len(_split_paragraphs(text)[1]) % target_chars = 0
    /\ Len(chunks) = Len(_split_paragraphs(text)[1]) \div target_chars + 1

\* the last n characters of s
LastChars(s, n) == DropFirst(s, Len(s) - n)

\* C15: the chunk after a chunk closed at a paragraph boundary begins with
\* exactly the last min(overlap_chars, len(closed chunk)) characters of the
\* closed chunk; a hard-split piece, and the chunk after a piece, start
\* with no overlap, and the buffer flushed by a hard split is followed by
\* the first piece.
C15_OverlapAtParagraphBoundaryOnly ==
    cpc = "done" =>
        LET tr == Trace IN
        \A i \in 1..Len(tr) :
            /\ tr[i].kind = "closed" =>
                 /\ i < Len(tr)
                 /\ LET k == Min(overlap_chars, Len(chunks[i])) IN
                    /\ tr[i + 1].seed = k
                    /\ Len(chunks[i + 1]) >= k
                    /\ TakeFirst(chunks[i + 1], k) = LastChars(chunks[i], k)
            /\ tr[i].kind = "piece" =>
                 /\ tr[i].seed = 0
                 /\ i < Len(tr) => tr[i + 1].seed = 0
            /\ tr[i].kind = "flushed" =>
                 /\ i < Len(tr)
                 /\ tr[i + 1].kind = "piece"

\* a chunk closed at a paragraph boundary whose successor carries overlap,
\* in a run that also hard-splits a paragraph
C15_Witness ==
    /\ cpc = "done"
    /\ overlap_chars >= 1
    /\ LET tr == Trace IN
       /\ \E i \in 1..(Len(tr) - 1) :
            tr[i].kind = "closed" /\ tr[i + 1].seed >= 1
       /\ \E i \in 1..Len(tr) : tr[i].kind = "piece"

\* ------------------------------------------------------------------------
\* _move_to_errors called again and again on the same store (a retried
\* quarantine): each call is the copy and the delete of QuarantineCopy and
\* QuarantineDelete
\* ------------------------------------------------------------------------
\* calls of _move_to_errors in one behaviour
MaxMoves == 3

\* the keys and the reasons the calls are made with
MoveKeys == {Unquote(KeyA), Unquote(KeyB)}
MoveReasons == {Exc("JobError", 40), Exc("CopyError", 300)}

InitQuarantine ==
    /\ InvIdle
    /\ DatasetIdle
    /\ PdfIdle
    /\ ChunkIdle
    /\ TextractIdle
    /\ event = <<>>
    /\ enable_crawler = FALSE
    /\ rec_i = 1
    /\ src_key = <<>>
    /\ e = NoExc
    /\ move_err = NoExc
    /\ \E present \in SUBSET MoveKeys :
           store = [k \in present |-> Object(k, NoExc)]
    /\ calls = <<>>
    /\ log = <<>>
    /\ crawls = <<>>
    /\ jobs = <<>>
    /\ result = Outcome("none", NoExc)
    /\ rpc = "qcall"

\* _move_to_errors(BUCKET, src_key, reason) is entered (line 46); every call
\* that ended left one line in the log
MoveToErrors ==
    /\ rpc = "qcall"
    /\ Len(log) < MaxMoves
    /\ \E key \in MoveKeys, reason \in MoveReasons :
         /\ src_key' = key
         /\ e' = reason
    /\ move_err' = NoExc
    /\ rpc' = "except"
    /\ UNCHANGED <<event, enable_crawler, rec_i, store, calls, log, crawls,
                   jobs, result>>
    /\ UNCHANGED <<chunkVars, textractVars, pdfVars, datasetVars,
                   invVars>>

\* the call has returned or raised (move_err) and the caller may retry
MoveToErrorsEnd ==
    /\ rpc = "raise"
    /\ rpc' = "qcall"
    /\ UNCHANGED <<event, enable_crawler, rec_i, src_key, e, move_err, store,
                   calls, log, crawls, jobs, result>>
    /\ UNCHANGED <<chunkVars, textractVars, pdfVars, datasetVars,
                   invVars>>

NextQuarantine ==
    \/ MoveToErrors \/ QuarantineCopy \/ QuarantineDelete \/ MoveToErrorsEnd

SpecQuarantine == InitQuarantine /\ [][NextQuarantine]_vars

\* _move_to_errors is about to run on a key whose source object is gone and
\* whose quarantine copy exists
AlreadyQuarantined ==
    /\ rpc = "except"
    /\ src_key \notin DOMAIN store
    /\ ErrorKey(src_key) \in DOMAIN store

\* the re-run gets past the copy and reaches the delete step with the
\* quarantine copy as it was
ReRunReachesDelete ==
    AlreadyQuarantined =>
        /\ rpc' = "qdelete"
        /\ move_err' = NoExc
        /\ store'[ErrorKey(src_key)] = store[ErrorKey(src_key)]

\* the re-run fails at the copy step with NoSuchKey, calls nothing else and
\* changes no object
ReRunFailsAtCopy ==
    AlreadyQuarantined =>
        /\ rpc' = "raise"
        /\ move_err'.type = "NoSuchKey"
        /\ calls' = Append(calls, Call("copy_object", src_key,
                                       ErrorKey(src_key), "NoSuchKey"))
        /\ store' = store

\* C16 as stated: quarantine re-run on an already quarantined key fails at
\* the delete step, the quarantine copy unchanged.
C16_ReRunFailsAtDelete == [][ReRunReachesDelete]_vars

\* C16: quarantine re-run on an already quarantined key (source deleted)
\* fails at the copy step, because the source no longer exists; the delete
\* step is not reached and the quarantine copy keeps its content and its
\* reason tag.
C16_ReRunFailsAtCopy == [][ReRunFailsAtCopy]_vars

\* a key quarantined with one reason, quarantined again with another: the
\* second call failed and the copy still carries the first reason
C16_Witness ==
    /\ rpc = "raise"
    /\ move_err.type = "NoSuchKey"
    /\ \E j \in 1..(Len(calls) - 1) :
         calls[j] = Call("delete_object", src_key, <<>>, "ok")
    /\ ErrorKey(src_key) \in DOMAIN store
    /\ store[ErrorKey(src_key)].data = src_key
    /\ store[ErrorKey(src_key)].meta # Truncate(e)

\* ------------------------------------------------------------------------
\* _dataset_from_key on its own: a key is drawn, then classified
\* ------------------------------------------------------------------------
\* length of the keys drawn
MaxKeyLen == 4

\* a lower-case and an upper-case letter, a digit, the three separators of
\* line 33, the path separator, a blank and a character outside [a-z0-9_]
KeyChars == {"a", "B", "1", "_", "-", ".", "/", " ", "@"}

\* the keys of the docstring (lines 28-30) and a name with no separator
KeyCustomers == <<"i","n","c","o","m","i","n","g","/","c","s","v","/","c","u","s","t","o","m","e","r","s","_","2","0","2","5","-","0","9","-","2","2",".","c","s","v">>
KeySales == <<"i","n","c","o","m","i","n","g","/","j","s","o","n","/","s","a","l","e","s","-","2","0","2","4","-","1","2",".","j","s","o","n">>
KeyOrders == <<"i","n","c","o","m","i","n","g","/","j","s","o","n","/","O","r","d","e","r","s",".","j","s","o","n">>
KeyReport == <<"r","e","p","o","r","t",".","c","s","v">>

DatasetKeys ==
    UNION {[1..n -> KeyChars] : n \in 0..MaxKeyLen}
    \cup {KeyCustomers, KeySales, KeyOrders, KeyReport}

InitDataset ==
    /\ InvIdle
    /\ ChunkIdle
    /\ TextractIdle
    /\ RouterIdle
    /\ PdfIdle
    /\ ds_key \in DatasetKeys
    /\ ds_value = <<>>
    /\ dpc = "start"

DatasetFromKey ==
    /\ dpc = "start"
    /\ ds_value' = _dataset_from_key(ds_key)
    /\ dpc' = "done"
    /\ UNCHANGED ds_key
    /\ UNCHANGED <<chunkVars, textractVars, routerVars, pdfVars,
                   invVars>>

NextDataset == DatasetFromKey

SpecDataset == InitDataset /\ [][NextDataset]_vars

\* letters and digits only
IsAlnum(s) ==
    \A i \in 1..Len(s) : Lower(<<s[i]>>)[1] \in DatasetChars \ {"_"}

\* C17: the dataset of a key is never empty and made of [a-z0-9_] only; it
\* is the lower-cased first segment of the base name before the first '_',
\* '-' or '.' whenever that segment is made of letters and digits, as for
\* customers_2025-09-22.csv, Orders.json, sales-2024-12.json and report.csv.
C17_DatasetFromKey ==
    dpc = "done" =>
        /\ ds_value # <<>>
        /\ \A i \in 1..Len(ds_value) : ds_value[i] \in DatasetChars
        /\ LET seg == FirstSegment(Basename(ds_key)) IN
           (seg # <<>> /\ IsAlnum(seg)) => ds_value = Lower(seg)
        /\ ds_key = KeyCustomers => ds_value = <<"c","u","s","t","o","m","e","r","s">>
        /\ ds_key = KeyOrders => ds_value = <<"o","r","d","e","r","s">>
        /\ ds_key = KeySales => ds_value = <<"s","a","l","e","s">>
        /\ ds_key = KeyReport => ds_value = <<"r","e","p","o","r","t">>

\* a key whose first segment has an upper-case letter and a character
\* outside the class, classified
C17_Witness ==
    /\ dpc = "done"
    /\ ds_key = <<"B", "@", "a", ".">>
    /\ ds_value = <<"b", "_", "a">>

\* ------------------------------------------------------------------------
\* The hard split within a text of several paragraphs
\* ------------------------------------------------------------------------
\* the number of slices of the paragraphs ps
RECURSIVE SliceCount(_, _)
SliceCount(ps, target) ==
    IF ps = <<>> THEN 0
    ELSE CeilDiv(Len(Head(ps)), target) + SliceCount(Tail(ps), target)

\* C20: the slices of the paragraphs longer than max_chars are chunks of
\* their own, in order, none merged with the buffer or with another
\* paragraph; a non-empty buffer is emitted as one chunk right before the
\* first slice; and two short paragraphs followed by a paragraph of 5000
\* characters give, with target 3200 and max 4000, exactly the two short
\* paragraphs as chunk 0 and the two slices as chunks 1 and 2.
C20_BufferFlushedThenSlices ==
    cpc = "done" =>
        LET tr == Trace
            pieces == SelectSeq(tr, LAMBDA c : c.kind = "piece")
            long == SelectSeq(Paragraphs, LAMBDA q : Len(q) > max_chars)
        IN  /\ Concat([i \in 1..Len(pieces) |-> pieces[i].text]) = Concat(long)
            /\ Len(pieces) = SliceCount(long, target_chars)
            /\ \A i \in 1..Len(pieces) :
                 Len(pieces[i].text) \in 1..target_chars
            /\ \A i \in 1..Len(tr) :
                 /\ tr[i].kind = "flushed" =>
                      i < Len(tr) /\ tr[i + 1].kind = "piece"
                 /\ (tr[i].kind = "piece" /\ i > 1) =>
                      tr[i - 1].kind \in {"flushed", "piece"}
            /\ (text = TwoShortOneLong
                /\ target_chars = DEFAULT_TARGET_CHARS
                /\ max_chars = DEFAULT_MAX_CHARS) =>
                 chunks = << <<"a", NL, "b", NL>>,
                             Rep("a", 3200),
                             Append(Rep("a", 1800), NL) >>

\* the two short paragraphs and the long one, chunked with the defaults
C20_Witness ==
    /\ cpc = "done"
    /\ text = TwoShortOneLong
    /\ target_chars = DEFAULT_TARGET_CHARS
    /\ max_chars = DEFAULT_MAX_CHARS
    /\ Len(chunks) = 3
    /\ Trace[1].kind = "flushed"

\* ------------------------------------------------------------------------
\* Readiness of the search index
\* ------------------------------------------------------------------------
\* a step of the INDEX stage: the bulk write is entered only from a HEAD
\* that found the index or from a create that made it, the index is written
\* only by the bulk write, and neither the HEAD nor the create is repeated
ReadinessStep ==
    /\ hpc' = "bulk" =>
         \/ hpc = "bulk"
         \/ hpc = "index" /\ os_endpoint /\ index_exists
         \/ hpc = "create" /\ ~index_exists /\ index_exists'
    /\ index_docs' # index_docs => hpc = "bulk" /\ index_exists
    /\ hpc' = "index" => hpc \in {"index", "insert_doc", "insert_chunk"}
    /\ hpc' = "create" => hpc \in {"create", "index"}
    /\ hpc = "bulk" => hpc' \in {"bulk", "return"}

\* C21: the bulk write is attempted only when the index is ready (HEAD 200,
\* or HEAD 404 and a successful create); after any other HEAD outcome or a
\* failed create the run goes to its return without a bulk write and
\* without a second readiness check.
C21_BulkOnlyWhenIndexReady ==
    /\ [](hpc = "bulk" => os_endpoint /\ index_exists)
    /\ []((\E i \in 1..Len(index_docs) : index_docs[i].doc_id = doc_id)
            => os_endpoint /\ index_exists)
    /\ [][ReadinessStep]_vars

\* a run that ended ok with an endpoint set, chunks to index and the index
\* still missing: the create failed and nothing was written
C21_Witness ==
    /\ hpc = "returned"
    /\ pdf_result.status = "ok"
    /\ os_endpoint
    /\ ~index_exists
    /\ pdf_chunks # <<>>
    /\ index_docs = <<>>

\* ------------------------------------------------------------------------
\* Result collection of _textract_text
\* ------------------------------------------------------------------------
\* the blocks of all pages received, in page order
AllBlocks == Concat(pages)

\* the blocks of kind LINE that carry a text
TextLines ==
    SelectSeq(AllBlocks, LAMBDA b : b.BlockType = "LINE" /\ b.HasText)

\* the number of newlines of s
Newlines(s) == Cardinality({i \in 1..Len(s) : s[i] = NL})

\* C22: the text returned is the newline-joined text of exactly the LINE
\* blocks with text, each once, in page order and in block order within a
\* page; the first page is that of the SUCCEEDED poll and one page was
\* fetched per continuation token until a response carried none.
C22_TextIsLinesInPageOrder ==
    tpc = "done" =>
        /\ statuses[Len(statuses)] = "SUCCEEDED"
        /\ Len(pages) >= 1
        /\ fetches = Len(pages) - 1
        /\ ~next_token
        /\ blocks = AllBlocks
        /\ ttext = JoinLines([i \in 1..Len(TextLines) |-> TextLines[i].Text])
        /\ TextLines # <<>> => Newlines(ttext) = Len(TextLines) - 1

\* two pages, with a block of another kind and a LINE without text between
\* the text lines
C22_Witness ==
    /\ tpc = "done"
    /\ Len(pages) = 2
    /\ fetches = 1
    /\ Len(pages[1]) = 2
    /\ pages[1][1].Text = <<"x">>
    /\ ~pages[1][2].HasText
    /\ pages[2] = <<[BlockType |-> "LINE", HasText |-> TRUE, Text |-> <<"y">>]>>
    /\ ttext = <<"x", NL, "y">>

\* ------------------------------------------------------------------------
\* The key the quarantine is invoked on
\* ------------------------------------------------------------------------
\* the calls _move_to_errors made: the copies to an error key
QuarantineCalls ==
    SelectSeq(calls, LAMBDA c : c.op = "copy_object" /\ c.dst = ErrorKey(c.src))

\* C23: the quarantine is only ever invoked on the source key of the record
\* whose processing raised; a record that fails before its key is read
\* causes no quarantine of a key left by an earlier record of the batch.
C23_QuarantineOnlyOwnKey ==
    \A i \in 1..Len(QuarantineCalls) :
        /\ rec_i <= Len(event)
        /\ event[rec_i].wellFormed
        /\ QuarantineCalls[i].src = Unquote(event[rec_i].key)

\* ------------------------------------------------------------------------
\* Several invocations of the structured lambda_handler for the same key
\* (the storage notification delivered more than once), each with one
\* record, running concurrently on the same bucket; an invocation may stop
\* at any point (timeout or kill of the function)
\* ------------------------------------------------------------------------
\* invocations for the key
MaxInvocations == 2

Invocations == 1..MaxInvocations

\* the key of the record, accepted by the filter of lines 93-99
InvKey == Unquote(KeyA)

\* an invocation that deletes the source although its copy failed
AfterCopyError_DeletesAnyway(step) ==
    IF step = "stage" THEN "delete" ELSE "qdelete"

\* Where an invocation goes when copy_object raises: out of
\* _copy_then_delete to the except block (lines 39-43, 124), out of
\* _move_to_errors to the inner except and the raise (lines 49-55, 129-131);
\* the delete after the copy is not executed
AfterCopyError(step) == IF step = "stage" THEN "except" ELSE "raised"

InitInvocations ==
    /\ ChunkIdle
    /\ TextractIdle
    /\ RouterIdle
    /\ PdfIdle
    /\ DatasetIdle
    /\ inv_pc = [p \in Invocations |-> "copy"]
    /\ inv_e = [p \in Invocations |-> NoExc]
    /\ inv_store = [k \in {InvKey} |-> Object(InvKey, NoExc)]

\* what every action of an invocation leaves alone
InvFrame == UNCHANGED <<chunkVars, textractVars, routerVars, pdfVars,
                        datasetVars>>

\* _copy_then_delete, s3.copy_object (lines 39-43), after the filter
InvStageCopy(p) ==
    /\ inv_pc[p] = "copy"
    /\ \/ /\ InvKey \in DOMAIN inv_store
          /\ inv_store' = Put(inv_store, StagingKey(InvKey), inv_store[InvKey])
          /\ inv_pc' = [inv_pc EXCEPT ![p] = "delete"]
          /\ UNCHANGED inv_e
       \/ \E len \in MsgLens :
            /\ inv_e' = [inv_e EXCEPT ![p] =
                           Exc(IF InvKey \in DOMAIN inv_store
                               THEN "CopyError" ELSE "NoSuchKey", len)]
            /\ inv_pc' = [inv_pc EXCEPT ![p] = AfterCopyError("stage")]
            /\ UNCHANGED inv_store
    /\ InvFrame

\* _copy_then_delete, s3.delete_object (line 44)
InvStageDelete(p) ==
    /\ inv_pc[p] = "delete"
    /\ \/ /\ inv_store' = Remove(inv_store, InvKey)
          /\ inv_pc' = [inv_pc EXCEPT ![p] = "trigger"]
          /\ UNCHANGED inv_e
       \/ \E len \in MsgLens :
            /\ inv_e' = [inv_e EXCEPT ![p] = Exc("DeleteError", len)]
            /\ inv_pc' = [inv_pc EXCEPT ![p] = "except"]
            /\ UNCHANGED inv_store
    /\ InvFrame

\* the crawler and the job (lines 109-122), which touch no object
InvTrigger(p) ==
    /\ inv_pc[p] = "trigger"
    /\ \/ /\ inv_pc' = [inv_pc EXCEPT ![p] = "returned"]
          /\ UNCHANGED inv_e
       \/ \E type \in {"OtherError", "JobError"}, len \in MsgLens :
            /\ inv_e' = [inv_e EXCEPT ![p] = Exc(type, len)]
            /\ inv_pc' = [inv_pc EXCEPT ![p] = "except"]
    /\ UNCHANGED inv_store
    /\ InvFrame

\* _move_to_errors, s3.copy_object (lines 47-55)
InvQuarantineCopy(p) ==
    /\ inv_pc[p] = "except"
    /\ \/ /\ \E obj \in CopiedObject(inv_store, InvKey, Truncate(inv_e[p])) :
               inv_store' = Put(inv_store, ErrorKey(InvKey), obj)
          /\ inv_pc' = [inv_pc EXCEPT ![p] = "qdelete"]
       \/ /\ inv_pc' = [inv_pc EXCEPT ![p] = AfterCopyError("quarantine")]
          /\ UNCHANGED inv_store
    /\ UNCHANGED inv_e
    /\ InvFrame

\* _move_to_errors, s3.delete_object (line 56), then the raise of line 131
InvQuarantineDelete(p) ==
    /\ inv_pc[p] = "qdelete"
    /\ \/ inv_store' = Remove(inv_store, InvKey)
       \/ UNCHANGED inv_store
    /\ inv_pc' = [inv_pc EXCEPT ![p] = "raised"]
    /\ UNCHANGED inv_e
    /\ InvFrame

\* the function is stopped between two calls
InvCrash(p) ==
    /\ inv_pc[p] \notin {"returned", "raised", "crashed"}
    /\ inv_pc' = [inv_pc EXCEPT ![p] = "crashed"]
    /\ UNCHANGED <<inv_e, inv_store>>
    /\ InvFrame

NextInvocations ==
    \E p \in Invocations :
        \/ InvStageCopy(p) \/ InvStageDelete(p) \/ InvTrigger(p)
        \/ InvQuarantineCopy(p) \/ InvQuarantineDelete(p) \/ InvCrash(p)

SpecInvocations == InitInvocations /\ [][NextInvocations]_vars

\* the keys the content of the object may be found under
HomesOfObject == {InvKey, StagingKey(InvKey), ErrorKey(InvKey)}

====
